---------------------------- MODULE Spec2Model ----------------------------
(***************************************************************************)
(* Model of Practica3.py: the SAN surface-grammar recognizer               *)
(* (SANParser._compile_patterns / validate_move), the turn ledger          *)
(* (SANParser.turns), the variation tree renderer (generate_tree), the     *)
(* move flattener (display_result) and the interactive session (main).     *)
(*                                                                         *)
(* Strings are sequences of one-character strings: "e4" is <<"e","4">>.    *)
(* The box-drawing characters of the tree are named VBAR, TEE, ELL, DASH.  *)
(***************************************************************************)
EXTENDS Integers, Sequences, FiniteSets, TLC

VARIABLES
    input,    \* SpecV: the argument handed to validate_move
    result,   \* SpecV: the value validate_move returned
    vpc,      \* SpecV: "ready" before the call, "validated" after it
    turns,    \* parser.turns: sequence of [white, black]
    board,    \* parser.board: the stack of moves pushed on the session board
    turn,     \* main: the turn counter
    pc,       \* main: "white" / "black" prompt, "done" after the break, "crashed"
    cmd,      \* main: cmd / resp, the stripped line read last
    out,      \* what the last handled line printed
    asked,    \* history: the token the last handled line handed to play_move
    applied   \* history: every move pushed on the session board, with its side

vars == <<input, result, vpc, turns, board, turn, pc, cmd, out, asked, applied>>

\* ------------------------------------------------------------------ bounds
\* longest enumerated argument of validate_move
MaxLen == 4
\* most moves pushed on the session board in one run
MaxPlies == 5

\* ------------------------------------------------------------- characters
NL == "\n"
SP == " "
VBAR == "VBAR"
TEE == "TEE"
ELL == "ELL"
DASH == "DASH"

\* Python's None: no string of characters equals it
None == <<"None">>

\* --------------------------------------------------- the grammar recognizer
letra == {"a", "b", "c", "d", "e", "f", "g", "h"}

numero == {"1", "2", "3", "4", "5", "6", "7", "8"}

pieza == {"K", "Q", "R", "B", "N"}

jaque_mate == {"+", "#"}

captura == <<"x">>

\* positions reached from a position of P by one character of class C
Cls(s, P, C) == {p + 1 : p \in {q \in P : q < Len(s) /\ s[q + 1] \in C}}

\* positions reached from a position of P by the literal w
Lit(s, P, w) ==
    {p + Len(w) : p \in {q \in P : q + Len(w) <= Len(s)
                                   /\ SubSeq(s, q + 1, q + Len(w)) = w}}

casilla(s, P) == Cls(s, Cls(s, P, letra), numero)

promocion(s, P) == Cls(s, Lit(s, P, <<"=">>), pieza)

desambiguacion(s, P) == Cls(s, P, letra) \cup Cls(s, P, numero) \cup casilla(s, P)

enroque(s, P) == Lit(s, P, <<"O", "-", "O", "-", "O">>) \cup Lit(s, P, <<"O", "-", "O">>)

\* the common tail (?:promocion)?(?:jaque_mate)?
Sufijo(s, P) ==
    LET a == P \cup promocion(s, P)
    IN  a \cup Cls(s, a, jaque_mate)

movimiento_pieza(s, P) ==
    LET a == Cls(s, P, pieza)
        b == a \cup desambiguacion(s, a)
        c == b \cup Lit(s, b, captura)
    IN  Sufijo(s, casilla(s, c))

peon_avance(s, P) == Sufijo(s, casilla(s, P))

peon_captura(s, P) == Sufijo(s, casilla(s, Lit(s, Cls(s, P, letra), <<"x">>)))

movimiento_peon(s, P) == peon_captura(s, P) \cup peon_avance(s, P)

\* the pattern without its "$"
EndAnchorAbsent(s, p) == TRUE

\* the regex "$": the end of the string, or just before a final newline
EndAnchor(s, p) == p = Len(s) \/ (p = Len(s) - 1 /\ s[Len(s)] = NL)

\* jugada = ^(?: enroque | movimiento_pieza | movimiento_peon )$ tried at 0
jugada(s) ==
    \E p \in enroque(s, {0}) \cup movimiento_pieza(s, {0}) \cup movimiento_peon(s, {0}) :
        EndAnchor(s, p)

validate_move(move) == jugada(move)

\* ------------------------------------------------------- string helpers
Whitespace == {SP, NL, "\t"}

UpperLetters ==
    <<"A", "B", "C", "D", "E", "F", "G", "H", "I", "J", "K", "L", "M",
      "N", "O", "P", "Q", "R", "S", "T", "U", "V", "W", "X", "Y", "Z">>

LowerLetters ==
    <<"a", "b", "c", "d", "e", "f", "g", "h", "i", "j", "k", "l", "m",
      "n", "o", "p", "q", "r", "s", "t", "u", "v", "w", "x", "y", "z">>

\* the lower-case form of every upper-case letter, and the converse
ToLower ==
    [c \in {UpperLetters[k] : k \in 1..26} |->
        LowerLetters[CHOOSE k \in 1..26 : UpperLetters[k] = c]]

ToUpper ==
    [c \in {LowerLetters[k] : k \in 1..26} |->
        UpperLetters[CHOOSE k \in 1..26 : LowerLetters[k] = c]]

\* str.lower()
lower(s) == [i \in 1..Len(s) |-> IF s[i] \in DOMAIN ToLower THEN ToLower[s[i]] ELSE s[i]]

\* str.upper()
upper(s) == [i \in 1..Len(s) |-> IF s[i] \in DOMAIN ToUpper THEN ToUpper[s[i]] ELSE s[i]]

\* str.strip(): drops the leading and the trailing whitespace
strip(s) ==
    LET keep == {i \in 1..Len(s) : s[i] \notin Whitespace}
    IN  IF keep = {} THEN <<>>
        ELSE SubSeq(s, CHOOSE i \in keep : \A j \in keep : i <= j,
                       CHOOSE i \in keep : \A j \in keep : j <= i)

\* Python truthiness of a ledger slot: None and "" are false
Truthy(x) == x # None /\ x # <<>>

\* ------------------------------------------------- the chess rules engine
\* The fragment of the rules the session's inputs can reach from the
\* starting position: the pawn moves f2-f3, g2-g4, e7-e5, the knight moves
\* g1-f3, f3-g1, b8-c6, c6-b8 and the queen move d8-h4.
Sq(f, r) == <<f, r>>

Mv(p, a, b) == [piece |-> p, from |-> a, to |-> b]

NoMove == Mv("none", <<>>, <<>>)

P_f3 == Mv("P", Sq("f", "2"), Sq("f", "3"))
P_g4 == Mv("P", Sq("g", "2"), Sq("g", "4"))
N_f3 == Mv("N", Sq("g", "1"), Sq("f", "3"))
N_g1 == Mv("N", Sq("f", "3"), Sq("g", "1"))
P_e5 == Mv("P", Sq("e", "7"), Sq("e", "5"))
Q_h4 == Mv("Q", Sq("d", "8"), Sq("h", "4"))
N_c6 == Mv("N", Sq("b", "8"), Sq("c", "6"))
N_b8 == Mv("N", Sq("c", "6"), Sq("b", "8"))

\* chess.Board(): the starting position, nothing pushed
NewBoard == <<>>

Played(b, m) == \E i \in 1..Len(b) : b[i] = m

Times(b, m) == Cardinality({i \in 1..Len(b) : b[i] = m})

\* board.turn: White moves first and the sides alternate on every push
WhiteToMove(b) == Len(b) % 2 = 0

SideToMove(b) == IF WhiteToMove(b) THEN "w" ELSE "b"

WhiteKnightOnF3(b) == Times(b, N_f3) > Times(b, N_g1)

BlackKnightOnC6(b) == Times(b, N_c6) > Times(b, N_b8)

\* the queen on h4 sees e1 through g3 and f2 once the f-pawn has left f2
WhiteInCheck(b) == Played(b, Q_h4) /\ Played(b, P_f3)

\* board.legal_moves, restricted to the fragment
LegalMoves(b) ==
    IF WhiteToMove(b)
    THEN {m \in {P_f3, P_g4, N_f3, N_g1} :
            /\ ~WhiteInCheck(b)
            /\ m = P_f3 => ~Played(b, P_f3) /\ ~WhiteKnightOnF3(b) /\ ~Played(b, Q_h4)
            /\ m = P_g4 => ~Played(b, P_g4)
            /\ m = N_f3 => ~WhiteKnightOnF3(b) /\ ~Played(b, P_f3)
            /\ m = N_g1 => WhiteKnightOnF3(b)}
    ELSE {m \in {P_e5, Q_h4, N_c6, N_b8} :
            /\ m = P_e5 => ~Played(b, P_e5)
            /\ m = Q_h4 => Played(b, P_e5) /\ ~Played(b, Q_h4)
            /\ m = N_c6 => ~BlackKnightOnC6(b)
            /\ m = N_b8 => BlackKnightOnC6(b)}

\* board.is_checkmate(): the fool's mate pattern, f3 and g4 played, Qh4
is_checkmate(b) ==
    WhiteToMove(b) /\ WhiteInCheck(b) /\ Played(b, P_g4)

\* the spellings parse_san resolves to the move m: an optional piece
\* letter (none for a pawn), optional origin file, optional origin rank,
\* an optional "x" or "-", the destination
Spellings(m) ==
    {(IF m.piece = "P" THEN <<>> ELSE <<m.piece>>) \o f \o r \o x \o m.to :
        f \in {<<>>, <<m.from[1]>>},
        r \in {<<>>, <<m.from[2]>>},
        x \in {<<>>, <<"x">>, <<"-">>}}

\* parse_san drops one trailing "+" or "#" without checking it
Core(san) ==
    IF Len(san) > 0 /\ san[Len(san)] \in {"+", "#"}
    THEN SubSeq(san, 1, Len(san) - 1)
    ELSE san

\* board.parse_san(san): the one legal move the token spells, or a failure
parse_san(b, san) ==
    LET ms == {m \in LegalMoves(b) : Core(san) \in Spellings(m)}
    IN  IF Cardinality(ms) = 1 THEN CHOOSE m \in ms : TRUE ELSE NoMove

\* board.push(move)
push(b, m) == Append(b, m)

\* ------------------------------------------------------------ the ledger
\* SANParser.play_move: parse on the session board, push on success
play_move(b, san_move) ==
    LET move == parse_san(b, san_move)
    IN  IF move = NoMove
        THEN [ok |-> FALSE, board |-> b]
        ELSE [ok |-> TRUE, board |-> push(b, move)]

\* SANParser.add_turn(white): black defaults to None
add_turn(ts, white) == Append(ts, [white |-> white, black |-> None])

\* the first turn written instead of the last one
set_first_black(ts, black) ==
    [ts EXCEPT ![1] = [white |-> ts[1].white, black |-> black]]

\* parser.turns[-1] = (parser.turns[-1][0], black)
set_last_black(ts, black) ==
    [ts EXCEPT ![Len(ts)] = [white |-> ts[Len(ts)].white, black |-> black]]

\* --------------------------------------------------- the tree renderer
ConnLast == <<ELL, DASH, DASH, SP>>

ConnMore == <<TEE, DASH, DASH, SP>>

IndentBlank == <<SP, SP, SP, SP>>

IndentBar == <<VBAR, SP, SP, SP>>

Partida == <<"P", "a", "r", "t", "i", "d", "a">>

\* str.replace(old, new): every non-overlapping occurrence, left to right
RECURSIVE replace(_, _, _)
replace(s, old, new) ==
    IF Len(s) < Len(old) THEN s
    ELSE IF SubSeq(s, 1, Len(old)) = old
         THEN new \o replace(SubSeq(s, Len(old) + 1, Len(s)), old, new)
         ELSE <<s[1]>> \o replace(Tail(s), old, new)

\* the guard off by one turn
HasVariationLate(ts, depth) == depth = 0 /\ Len(ts) > 2

\* if depth == 0 and len(self.turns) > 1
HasVariation(ts, depth) == depth = 0 /\ Len(ts) > 1

\* generate_tree._build_tree; depth counts from 0 as in the source
RECURSIVE build_tree(_, _, _, _)
build_tree(ts, depth, prefix, is_last) ==
    IF depth >= Len(ts) THEN <<>>
    ELSE
      LET white == ts[depth + 1].white
          black == ts[depth + 1].black
          connector == IF is_last THEN ConnLast ELSE ConnMore
          new_prefix == prefix \o (IF is_last THEN IndentBlank ELSE IndentBar)
          rama == IF Truthy(black)
                  THEN <<prefix \o connector \o white, new_prefix \o ConnLast \o black>>
                       \o build_tree(ts, depth + 1, new_prefix \o IndentBlank, FALSE)
                  ELSE <<prefix \o connector \o white>>
                       \o build_tree(ts, depth + 1, prefix \o IndentBar, FALSE)
          variacion == IF HasVariation(ts, depth)
                       THEN build_tree(ts, 1,
                                replace(replace(prefix, <<TEE, DASH, DASH>>, IndentBar),
                                        <<ELL, DASH, DASH>>, IndentBlank),
                                TRUE)
                       ELSE <<>>
      IN  rama \o variacion

\* the top call always marked as the last branch
generate_tree_last(ts) ==
    <<Partida>> \o (IF ts # <<>> THEN build_tree(ts, 0, <<>>, TRUE) ELSE <<>>)

\* SANParser.generate_tree: the lines it prints
generate_tree(ts) ==
    <<Partida>> \o (IF ts # <<>> THEN build_tree(ts, 0, <<>>, Len(ts) = 1) ELSE <<>>)

\* ------------------------------------------------------- the flattener
\* one slot of display_result's loop body: skip a false slot, else parse
\* on the replay board, record piece and squares, push
ReplaySlot(st, tok) ==
    IF ~st.ok \/ ~Truthy(tok) THEN st
    ELSE LET mv == parse_san(st.board, tok)
         IN  IF mv = NoMove
             THEN [st EXCEPT !.ok = FALSE]
             ELSE [ok |-> TRUE,
                   board |-> push(st.board, mv),
                   flat |-> Append(st.flat, [n |-> Len(st.flat) + 1, piece |-> mv.piece,
                                             frm |-> mv.from, to |-> mv.to]),
                   sans |-> Append(st.sans, tok)]

RECURSIVE ReplayFrom(_, _, _)
ReplayFrom(ts, i, st) ==
    IF i > Len(ts) THEN st
    ELSE ReplayFrom(ts, i + 1, ReplaySlot(ReplaySlot(st, ts[i].white), ts[i].black))

\* SANParser.display_result: ok is FALSE when parse_san raised
display_result(ts) ==
    ReplayFrom(ts, 1, [ok |-> TRUE, board |-> NewBoard, flat |-> <<>>, sans |-> <<>>])

\* ---------------------------------------------------------- the session
ARBOL == <<"a", "r", "b", "o", "l">>

RESULTADO == <<"R", "E", "S", "U", "L", "T", "A", "D", "O">>

\* the lines the user types in the model
Lines ==
    { <<"f", "3">>, <<"g", "4">>, <<"N", "f", "3">>, <<"N", "g", "1">>,
      <<"e", "5">>, <<"Q", "h", "4">>, <<"N", "c", "6">>, <<"N", "b", "8">>,
      <<"f", "3", "#">>, <<"e", "5", "#">>, <<"Q", "h", "4", "#">>,
      <<"f", "2", "f", "3">>, <<"e", "9">>, <<"K", "e", "4", "e", "5">>,
      <<>>, <<SP, "g", "4", SP>>,
      ARBOL, <<"A", "r", "b", "o", "l">>,
      RESULTADO, <<"r", "e", "s", "u", "l", "t", "a", "d", "o">> }

Printed(kind, lines, flat) == [kind |-> kind, lines |-> lines, flat |-> flat]

Nothing == Printed("none", <<>>, <<>>)

IsArbol(c) == lower(c) = ARBOL

IsResultado(c) == ~IsArbol(c) /\ upper(c) = RESULTADO

IsCommand(c) == IsArbol(c) \/ IsResultado(c)

\* play_move alone, the grammar check left out
TryMoveNoGrammar(b, c) ==
    LET r == play_move(b, c)
    IN  [ok |-> r.ok, board |-> r.board, asked |-> c]

\* validate_move alone, the result of play_move dropped
TryMoveNoEngine(b, c) ==
    IF validate_move(c)
    THEN [ok |-> TRUE, board |-> play_move(b, c).board, asked |-> c]
    ELSE [ok |-> FALSE, board |-> b, asked |-> None]

\* parser.validate_move(cmd) and parser.play_move(cmd): play_move is only
\* called once validate_move has returned True
TryMove(b, c) ==
    IF validate_move(c)
    THEN LET r == play_move(b, c)
         IN  [ok |-> r.ok, board |-> r.board, asked |-> c]
    ELSE [ok |-> FALSE, board |-> b, asked |-> None]

\* '#' in cmd or parser.board.is_checkmate()
EndsGame(c, b) == (\E i \in 1..Len(c) : c[i] = "#") \/ is_checkmate(b)

\* a missing break: the black prompt is asked again after an accepted move
AfterBlackNoBreak(c, b) == IF EndsGame(c, b) THEN "done" ELSE "black"

\* after an accepted black move: break, then the checkmate test; the
\* session ends or goes on with the next turn's white prompt
AfterBlack(c, b) == IF EndsGame(c, b) THEN "done" ELSE "white"

\* what RESULTADO does at either prompt: a raised exception ends the program
ShowResult(c) ==
    LET r == display_result(turns)
    IN  /\ cmd' = c
        /\ asked' = None
        /\ out' = IF r.ok THEN Printed("result", <<>>, r.flat) ELSE Printed("error", <<>>, <<>>)
        /\ pc' = IF r.ok THEN pc ELSE "crashed"
        /\ UNCHANGED <<input, result, vpc, turns, board, turn, applied>>

ShowTree(c) ==
    /\ cmd' = c
    /\ asked' = None
    /\ out' = Printed("tree", generate_tree(turns), <<>>)
    /\ UNCHANGED <<input, result, vpc, turns, board, turn, pc, applied>>

WhiteArbol(line) ==
    /\ pc = "white"
    /\ IsArbol(strip(line))
    /\ ShowTree(strip(line))

WhiteResultado(line) ==
    /\ pc = "white"
    /\ IsResultado(strip(line))
    /\ ShowResult(strip(line))

WhitePlay(line) ==
    LET c == strip(line)
        r == TryMove(board, c)
    IN  /\ pc = "white"
        /\ ~IsCommand(c)
        /\ r.ok
        /\ Len(board) < MaxPlies
        /\ cmd' = c
        /\ asked' = r.asked
        /\ board' = r.board
        /\ applied' = Append(applied, [san |-> c, side |-> SideToMove(board)])
        /\ turns' = add_turn(turns, c)
        /\ IF EndsGame(c, r.board)
           THEN pc' = "done" /\ out' = Printed("mate", <<>>, <<>>)
           ELSE pc' = "black" /\ out' = Printed("progress", <<>>, <<>>)
        /\ UNCHANGED <<input, result, vpc, turn>>

WhiteInvalid(line) ==
    LET c == strip(line)
        r == TryMove(board, c)
    IN  /\ pc = "white"
        /\ ~IsCommand(c)
        /\ ~r.ok
        /\ cmd' = c
        /\ asked' = r.asked
        /\ board' = r.board
        /\ out' = Printed("invalid", <<>>, <<>>)
        /\ UNCHANGED <<input, result, vpc, turns, turn, pc, applied>>

BlackArbol(line) ==
    /\ pc = "black"
    /\ IsArbol(strip(line))
    /\ ShowTree(strip(line))

BlackResultado(line) ==
    /\ pc = "black"
    /\ IsResultado(strip(line))
    /\ ShowResult(strip(line))

BlackSkip(line) ==
    LET c == strip(line)
    IN  /\ pc = "black"
        /\ c = <<>>
        /\ cmd' = c
        /\ asked' = None
        /\ turns' = set_last_black(turns, None)
        /\ out' = Printed("progress", <<>>, <<>>)
        /\ turn' = turn + 1
        /\ pc' = "white"
        /\ UNCHANGED <<input, result, vpc, board, applied>>

BlackPlay(line) ==
    LET c == strip(line)
        r == TryMove(board, c)
    IN  /\ pc = "black"
        /\ ~IsCommand(c)
        /\ c # <<>>
        /\ r.ok
        /\ Len(board) < MaxPlies
        /\ cmd' = c
        /\ asked' = r.asked
        /\ board' = r.board
        /\ applied' = Append(applied, [san |-> c, side |-> SideToMove(board)])
        /\ turns' = set_last_black(turns, c)
        /\ pc' = AfterBlack(c, r.board)
        /\ out' = Printed(IF EndsGame(c, r.board) THEN "mate" ELSE "progress", <<>>, <<>>)
        /\ turn' = IF EndsGame(c, r.board) THEN turn ELSE turn + 1
        /\ UNCHANGED <<input, result, vpc>>

BlackInvalid(line) ==
    LET c == strip(line)
        r == TryMove(board, c)
    IN  /\ pc = "black"
        /\ ~IsCommand(c)
        /\ c # <<>>
        /\ ~r.ok
        /\ cmd' = c
        /\ asked' = r.asked
        /\ board' = r.board
        /\ out' = Printed("invalid", <<>>, <<>>)
        /\ UNCHANGED <<input, result, vpc, turns, turn, pc, applied>>

Init ==
    /\ input = <<>>
    /\ result = FALSE
    /\ vpc = "idle"
    /\ turns = <<>>
    /\ board = NewBoard
    /\ turn = 1
    /\ pc = "white"
    /\ cmd = <<>>
    /\ out = Nothing
    /\ asked = None
    /\ applied = <<>>

Next ==
    \E line \in Lines :
        \/ WhiteArbol(line)
        \/ WhiteResultado(line)
        \/ WhitePlay(line)
        \/ WhiteInvalid(line)
        \/ BlackArbol(line)
        \/ BlackResultado(line)
        \/ BlackSkip(line)
        \/ BlackPlay(line)
        \/ BlackInvalid(line)

Spec == Init /\ [][Next]_vars

\* ------------------------------------- validate_move on enumerated inputs
Alphabet == {"e", "4", "K", "x", "=", "+", "O", "-", SP, NL}

AcceptExamples ==
    { <<"e", "4">>, <<"N", "f", "3">>, <<"B", "x", "c", "6">>, <<"O", "-", "O">>,
      <<"O", "-", "O", "-", "O">>, <<"e", "x", "d", "5">>, <<"e", "8", "=", "Q">>,
      <<"Q", "h", "4", "+">>, <<"R", "x", "f", "7", "#">>, <<"N", "b", "d", "7">>,
      <<"R", "1", "a", "3">> }

RejectExamples ==
    { <<>>, <<"e", "9">>, <<"e">>, <<"o", "-", "o">>, <<"K", "x">>,
      <<"K", "e", "4", "e", "5">>, <<"e", "4", SP>>, <<"e", "4", "x">> }

Inputs ==
    UNION {[1..n -> Alphabet] : n \in 0..MaxLen} \cup AcceptExamples \cup RejectExamples

InitV ==
    /\ input \in Inputs
    /\ result = FALSE
    /\ vpc = "ready"
    /\ turns = <<>>
    /\ board = NewBoard
    /\ turn = 1
    /\ pc = "white"
    /\ cmd = <<>>
    /\ out = Nothing
    /\ asked = None
    /\ applied = <<>>

Validate ==
    /\ vpc = "ready"
    /\ result' = validate_move(input)
    /\ vpc' = "validated"
    /\ UNCHANGED <<input, turns, board, turn, pc, cmd, out, asked, applied>>

NextV == Validate

SpecV == InitV /\ [][NextV]_vars

\* ------------------------------------ generate_tree on enumerated ledgers
\* most turns of an enumerated ledger
MaxTurns == 5

\* the plies of one game, in play order
GameLine ==
    << <<"e", "4">>, <<"e", "5">>, <<"N", "f", "3">>, <<"N", "c", "6">>,
       <<"B", "b", "5">>, <<"a", "6">>, <<"B", "a", "4">>, <<"N", "f", "6">>,
       <<"O", "-", "O">>, <<"B", "e", "7">>, <<"R", "e", "1">>, <<"b", "5">>,
       <<"B", "b", "3">>, <<"d", "6">> >>

\* the ledgers the session builds from the plies k.. in at most n turns:
\* every turn takes one ply as its white move and either the next ply as
\* its black move or, after an empty black input, none
RECURSIVE LedgersFrom(_, _)
LedgersFrom(k, n) ==
    IF n = 0 \/ k > Len(GameLine) THEN {<<>>}
    ELSE {<<>>}
         \cup {<<[white |-> GameLine[k], black |-> None]>> \o r : r \in LedgersFrom(k + 1, n - 1)}
         \cup (IF k + 1 > Len(GameLine) THEN {}
               ELSE {<<[white |-> GameLine[k], black |-> GameLine[k + 1]]>> \o r :
                        r \in LedgersFrom(k + 2, n - 1)})

InitT ==
    /\ input = <<>>
    /\ result = FALSE
    /\ vpc = "idle"
    /\ turns \in LedgersFrom(1, MaxTurns)
    /\ board = NewBoard
    /\ turn = 1
    /\ pc = "white"
    /\ cmd = <<>>
    /\ out = Nothing
    /\ asked = None
    /\ applied = <<>>

Render ==
    /\ out = Nothing
    /\ out' = Printed("tree", generate_tree(turns), <<>>)
    /\ UNCHANGED <<input, result, vpc, turns, board, turn, pc, cmd, asked, applied>>

NextT == Render

SpecT == InitT /\ [][NextT]_vars

\* =================================================================== claims
\* ------------------------------------------------- the grammar of the spec
\* membership in the language of the rule `move`, read from the right:
\* check_mate?, promotion?, square, and before it nothing (pawn_adv),
\* file "x" (pawn_cap) or piece disambig? "x"? (piece_move)
Front(t) == SubSeq(t, 1, Len(t) - 1)

G_square(t) == Len(t) = 2 /\ t[1] \in letra /\ t[2] \in numero

G_disambig(t) == (Len(t) = 1 /\ t[1] \in letra \cup numero) \/ G_square(t)

G_castle(t) == t = <<"O", "-", "O", "-", "O">> \/ t = <<"O", "-", "O">>

G_noCheck(t) ==
    {t} \cup (IF Len(t) > 0 /\ t[Len(t)] \in {"+", "#"} THEN {Front(t)} ELSE {})

G_noPromotion(t) ==
    {t} \cup (IF Len(t) >= 2 /\ t[Len(t) - 1] = "=" /\ t[Len(t)] \in pieza
              THEN {SubSeq(t, 1, Len(t) - 2)} ELSE {})

G_pieceHead(h) ==
    /\ Len(h) >= 1
    /\ h[1] \in pieza
    /\ \E d \in {Tail(h)} \cup (IF Len(h) >= 2 /\ h[Len(h)] = "x" THEN {Front(Tail(h))} ELSE {}) :
          d = <<>> \/ G_disambig(d)

G_pawnHead(h) == h = <<>> \/ (Len(h) = 2 /\ h[1] \in letra /\ h[2] = "x")

Derivable(s) ==
    \/ G_castle(s)
    \/ \E a \in G_noCheck(s) : \E t \in G_noPromotion(a) :
          /\ Len(t) >= 2
          /\ G_square(SubSeq(t, Len(t) - 1, Len(t)))
          /\ LET h == SubSeq(t, 1, Len(t) - 2) IN G_pieceHead(h) \/ G_pawnHead(h)

\* C1: validate_move(s) is true exactly when the whole string s is derivable
\* from the rule `move`; no extra leading or trailing character, a trailing
\* newline included, is accepted.
C1_WholeStringMatch == vpc = "validated" => (result <=> Derivable(input))

\* C2 as stated: every listed rejection example is rejected.
C2_AllListedRejected == (vpc = "validated" /\ input \in RejectExamples) => ~result

\* C2 amended: the listed rejection examples other than "Ke4e5" are
\* rejected, and "Ke4e5" (K, origin square e4, destination e5) is accepted.
C2_ListedRejectedButKe4e5 ==
    vpc = "validated" =>
        /\ input \in RejectExamples \ {<<"K", "e", "4", "e", "5">>} => ~result
        /\ input = <<"K", "e", "4", "e", "5">> => result

C2_Witness == vpc = "validated" /\ input = <<"e", "4", SP>> /\ ~result

RejectedStep ==
    /\ pc \in {"white", "black"}
    /\ ~IsCommand(cmd')
    /\ pc = "black" => cmd' # <<>>
    /\ ~validate_move(cmd') \/ parse_san(board, cmd') = NoMove

\* C4: a step that handles a rejected token leaves the ledger, the session
\* board and the turn number unchanged and stays at the same prompt, and
\* no step hands play_move a token that fails the grammar check.
C4_RejectedChangesNothing ==
    [][ /\ RejectedStep =>
              (turns' = turns /\ board' = board /\ turn' = turn /\ pc' = pc
               /\ applied' = applied /\ out'.kind = "invalid")
        /\ asked' # None => validate_move(asked') ]_vars

C4_Witness ==
    /\ out.kind = "invalid"
    /\ pc = "black"
    /\ cmd = <<"K", "e", "4", "e", "5">>
    /\ asked = cmd
    /\ turns # <<>>

\* C5: the replay of the ledger from a fresh board never fails: the present
\* tokens of the ledger, in order, are the moves applied to the session
\* board, and the replay board ends as the session board.
C5_ReplayNeverFails ==
    LET r == display_result(turns)
    IN  /\ pc # "crashed"
        /\ r.ok
        /\ r.sans = [i \in 1..Len(applied) |-> applied[i].san]
        /\ r.board = board

C5_Witness ==
    /\ out.kind = "result"
    /\ Len(out.flat) >= 3
    /\ \E i \in 1..(Len(turns) - 1) : ~Truthy(turns[i].black)

\* C8: the ledger only grows by one turn at its end, appended at the white
\* prompt with its black slot absent; a white token never changes, a turn
\* that is not the last one never changes, and a black slot changes only
\* from unset, in the last turn, in the step that leaves the black prompt.
C8_AppendAmendOnly ==
    [][ /\ Len(turns') \in {Len(turns), Len(turns) + 1}
        /\ Len(turns') = Len(turns) + 1 =>
              (pc = "white" /\ turns'[Len(turns')].black = None
               /\ SubSeq(turns', 1, Len(turns)) = turns)
        /\ \A i \in 1..Len(turns) :
              /\ turns'[i].white = turns[i].white
              /\ i < Len(turns) => turns'[i] = turns[i]
              /\ turns'[i].black # turns[i].black =>
                    (i = Len(turns) /\ turns[i].black = None
                     /\ pc = "black" /\ pc' # "black") ]_vars

C8_Witness ==
    /\ Len(turns) >= 3
    /\ Truthy(turns[1].black)
    /\ ~Truthy(turns[2].black)

\* the place of turn i's white token among the present tokens of the ledger
WhitePly(i) == i + Cardinality({j \in 1..(i - 1) : Truthy(turns[j].black)})

\* C9: the token in a white slot was applied when White was the side to
\* move, the token in a black slot when Black was.
C9_SlotsMatchSides ==
    \A i \in 1..Len(turns) :
        /\ applied[WhitePly(i)].side = "w"
        /\ Truthy(turns[i].black) => applied[WhitePly(i) + 1].side = "b"

\* C10: the session has ended only if the session board is in checkmate.
C10_EndsOnlyOnCheckmate == pc = "done" => is_checkmate(board)

\* ---------------------------------------------------------------- the tree
\* a printed line read back: the prefix before the connector, the
\* connector, the move after it
ConnAt(l) == CHOOSE i \in 1..Len(l) : l[i] \in {TEE, ELL} /\ \A j \in 1..(i - 1) : l[j] \notin {TEE, ELL}

HasConn(l) == \E i \in 1..Len(l) : l[i] \in {TEE, ELL}

LinePrefix(l) == SubSeq(l, 1, ConnAt(l) - 1)

LineConn(l) == SubSeq(l, ConnAt(l), ConnAt(l) + 3)

LineMove(l) == SubSeq(l, ConnAt(l) + 4, Len(l))

\* the present tokens of the turns from.. of the ledger, with their colour
RECURSIVE Plies(_, _)
Plies(ts, from) ==
    IF from > Len(ts) THEN <<>>
    ELSE <<[san |-> ts[from].white, colour |-> "w"]>>
         \o (IF Truthy(ts[from].black)
             THEN <<[san |-> ts[from].black, colour |-> "b"]>> ELSE <<>>)
         \o Plies(ts, from + 1)

\* the moves the tree shows: the whole ledger, then the variation
Shown(ts) == Plies(ts, 1) \o (IF Len(ts) > 1 THEN Plies(ts, 2) ELSE <<>>)

\* C6: the root label is printed once, first; an empty ledger prints nothing
\* more; the lines after it show the moves of every turn in order and then,
\* for more than one turn, the moves of the turns from index 1 on a second
\* time: turn 0 once, every later turn twice, the variation once, last.
C6_TreeShowsLedgerThenVariation ==
    out.kind = "tree" =>
        /\ out.lines[1] = Partida
        /\ Len(out.lines) = 1 + Len(Shown(turns))
        /\ \A k \in 1..Len(Shown(turns)) :
              /\ HasConn(out.lines[k + 1])
              /\ LineMove(out.lines[k + 1]) = Shown(turns)[k].san

C6_Witness ==
    /\ out.kind = "tree"
    /\ Len(turns) >= 3
    /\ Truthy(turns[1].black)
    /\ ~Truthy(turns[2].black)
    /\ Len(out.lines) > 1 + Len(Plies(turns, 1))

\* line i (after the root) is followed by a sibling: a later line at the
\* same depth with only deeper lines in between
NextSibling(ls, i) ==
    \E j \in (i + 1)..Len(ls) :
        /\ Len(LinePrefix(ls[j])) = Len(LinePrefix(ls[i]))
        /\ \A k \in (i + 1)..(j - 1) : Len(LinePrefix(ls[k])) > Len(LinePrefix(ls[i]))

\* the prefix is made of whole indent units
UnitsOnly(pre) ==
    /\ Len(pre) % 4 = 0
    /\ \A u \in 0..((Len(pre) \div 4) - 1) :
          SubSeq(pre, 4 * u + 1, 4 * u + 4) \in {IndentBar, IndentBlank}

E4E5 == <<[white |-> <<"e", "4">>, black |-> <<"e", "5">>]>>

E4E5Lines ==
    <<Partida, ConnLast \o <<"e", "4">>, IndentBlank \o ConnLast \o <<"e", "5">>>>

\* C7 as stated: a white move has the connector ELL DASH DASH when it is the
\* last line at its level and TEE DASH DASH only when a sibling follows; a
\* black move is one unit deeper with ELL DASH DASH; the ledger [(e4, e5)]
\* renders as Partida, "ELL-- e4", "    ELL-- e5".
C7_StandardConnectors ==
    out.kind = "tree" =>
        /\ \A i \in 2..Len(out.lines) :
              /\ UnitsOnly(LinePrefix(out.lines[i]))
              /\ LineConn(out.lines[i]) = ConnMore <=> NextSibling(out.lines, i)
              /\ Shown(turns)[i - 1].colour = "b" =>
                    (LineConn(out.lines[i]) = ConnLast
                     /\ Len(LinePrefix(out.lines[i])) = Len(LinePrefix(out.lines[i - 1])) + 4)
        /\ turns = E4E5 => out.lines = E4E5Lines

\* the first line of the variation branch: the line after the whole ledger
VariationStart(ts) == Len(Plies(ts, 1)) + 2

\* C7 amended: a white move has the connector ELL DASH DASH exactly when it
\* is the only turn of a one-turn ledger or the first move of the variation
\* branch, and TEE DASH DASH otherwise, also where no sibling follows; the
\* first turn and the variation start with an empty prefix; a black move
\* has ELL DASH DASH under its white move's prefix plus one unit, blank
\* under ELL DASH DASH and a bar under TEE DASH DASH; the next turn is
\* nested under the black move's prefix plus a blank unit, or without a
\* black move under the white move's prefix plus a bar unit; the ledger
\* [(e4, e5)] renders as Partida, "ELL-- e4", "    ELL-- e5".
C7_ConnectorsAsRendered ==
    out.kind = "tree" =>
        /\ \A i \in 2..Len(out.lines) :
             LET l == out.lines[i]
                 prev == out.lines[i - 1]
                 first == i = 2 \/ i = VariationStart(turns)
             IN  /\ UnitsOnly(LinePrefix(l))
                 /\ Shown(turns)[i - 1].colour = "w" =>
                       /\ LineConn(l) = ConnLast <=>
                             (Len(turns) = 1 \/ i = VariationStart(turns))
                       /\ LineConn(l) = ConnMore <=>
                             ~(Len(turns) = 1 \/ i = VariationStart(turns))
                       /\ first => LinePrefix(l) = <<>>
                       /\ (~first /\ Shown(turns)[i - 2].colour = "b") =>
                             LinePrefix(l) = LinePrefix(prev) \o IndentBlank
                       /\ (~first /\ Shown(turns)[i - 2].colour = "w") =>
                             LinePrefix(l) = LinePrefix(prev) \o IndentBar
                 /\ Shown(turns)[i - 1].colour = "b" =>
                       /\ LineConn(l) = ConnLast
                       /\ LinePrefix(l) = LinePrefix(prev) \o
                             (IF LineConn(prev) = ConnLast THEN IndentBlank ELSE IndentBar)
        /\ turns = E4E5 => out.lines = E4E5Lines

C7_Witness ==
    /\ out.kind = "tree"
    /\ Len(turns) = 3
    /\ Truthy(turns[1].black)
    /\ ~Truthy(turns[2].black)
    /\ \E i \in 2..Len(out.lines) :
          LineConn(out.lines[i]) = ConnMore /\ ~NextSibling(out.lines, i)

====
